---- MODULE Spec2Model ----
(***************************************************************************)
(* Model of the vboot work buffer / vb2_context lifecycle of               *)
(* firmware/2lib/2context.c: vb2api_init, vb2api_relocate, vb2api_reinit,  *)
(* vb2_set_workbuf_used, vb2_workbuf_from_ctx and get_boot_mode.           *)
(*                                                                         *)
(* Memory is one flat region of MemSize cells.  A cell stands for one      *)
(* field-sized unit of storage: every field of struct vb2_shared_data that *)
(* the code touches occupies one cell, and the scratch area behind the     *)
(* header is made of cells too.  Addresses, sizes and 'used' are counted   *)
(* in cells.  memset and memmove act cell by cell, as the C library acts   *)
(* byte by byte.                                                           *)
(***************************************************************************)
EXTENDS Integers, FiniteSets, Sequences, TLC

VARIABLES
    mem,      \* the memory region: address -> cell value
    wb,       \* address of the work buffer the caller currently holds
    ctx,      \* the caller's struct vb2_context * (NULL or an address)
    rv,       \* return value of the last call
    call,     \* the last call and its arguments
    pre,      \* mem as it was when the last call was made
    prectx,   \* ctx as it was when the last call was made
    view,     \* the struct vb2_workbuf last filled by vb2_workbuf_from_ctx
    pc,       \* "idle": the caller is between calls; "returned": a call
              \* has just returned and its result is on display
    steps,    \* number of calls made so far
    limit,    \* number of calls this run may make
    hw        \* hardware crypto: linked hooks, digest session, last verify

vars == <<mem, wb, ctx, rv, call, pre, prectx, view, pc, steps, limit, hw>>

(***************************************************************************)
(* Bounds of the model.                                                    *)
(***************************************************************************)
MemSize == 16
MaxSteps == 3
MaxHandoffSteps == 2
\* The largest value of the context flags word a boot-mode query is made with.
MaxFlags == 63

Addrs == 0 .. (MemSize - 1)
SizeArgs == 0 .. MemSize

(***************************************************************************)
(* Program constants.                                                      *)
(***************************************************************************)
NULL == -1

VB2_WORKBUF_ALIGN == 8
VB2_SHARED_DATA_MAGIC == 1146303062
VB2_SHARED_DATA_VERSION_MAJOR == 3
VB2_SHARED_DATA_VERSION_MINOR == 1

VB2_CONTEXT_RECOVERY_MODE == 4
VB2_CONTEXT_DEVELOPER_MODE == 8

VB2_BOOT_MODE_UNDEFINED == 0
VB2_BOOT_MODE_MANUAL_RECOVERY == 1
VB2_BOOT_MODE_BROKEN_SCREEN == 2
VB2_BOOT_MODE_DEVELOPER == 4
VB2_BOOT_MODE_NORMAL == 5

\* uint32_t arithmetic is done modulo UINT32_MOD (the width is scaled down
\* from 2^32 so that values next to the modulus stay within the checker's
\* integers; the code's own arguments in this model are far below it).
UINT32_MOD == 64

VB2_SUCCESS == "VB2_SUCCESS"
VB2_ERROR_WORKBUF_ALIGN == "VB2_ERROR_WORKBUF_ALIGN"
VB2_ERROR_WORKBUF_SMALL == "VB2_ERROR_WORKBUF_SMALL"
VB2_ERROR_WORKBUF_INVALID == "VB2_ERROR_WORKBUF_INVALID"
VB2_ERROR_SHARED_DATA_MAGIC == "VB2_ERROR_SHARED_DATA_MAGIC"
VB2_ERROR_SHARED_DATA_VERSION == "VB2_ERROR_SHARED_DATA_VERSION"
VB2_ERROR_EX_HWCRYPTO_UNSUPPORTED == "VB2_ERROR_EX_HWCRYPTO_UNSUPPORTED"
VB2_ERROR_SHA_EXTEND_ALGORITHM == "VB2_ERROR_SHA_EXTEND_ALGORITHM"
VB2_ERROR_SHA_FINALIZE_ALGORITHM == "VB2_ERROR_SHA_FINALIZE_ALGORITHM"
VB2_ERROR_RSA_VERIFY_SIG_LEN == "VB2_ERROR_RSA_VERIFY_SIG_LEN"
VB2_ERROR_RSA_VERIFY_WORKBUF == "VB2_ERROR_RSA_VERIFY_WORKBUF"
VB2_ERROR_RSA_VERIFY_DIGEST == "VB2_ERROR_RSA_VERIFY_DIGEST"

\* Size of work buffer sufficient for vb2_rsa_verify_digest() worst case.
VB2_VERIFY_RSA_DIGEST_WORKBUF_BYTES == 3 * 1024

(***************************************************************************)
(* Layout of struct vb2_shared_data, one cell per field.  struct           *)
(* vb2_context is embedded at OFF_CTX; its first field is flags and        *)
(* boot_mode follows.                                                      *)
(***************************************************************************)
OFF_MAGIC == 0
OFF_VERSION_MAJOR == 1
OFF_VERSION_MINOR == 2
OFF_CTX == 3
OFF_CTX_FLAGS == 3
OFF_CTX_BOOT_MODE == 4
OFF_WORKBUF_SIZE == 5
OFF_WORKBUF_USED == 6
SIZEOF_SD == 7

StampedOffsets == {OFF_MAGIC, OFF_VERSION_MAJOR, OFF_VERSION_MINOR,
                   OFF_WORKBUF_SIZE, OFF_WORKBUF_USED}

(***************************************************************************)
(* Helpers of 2common.h / 2misc.h / libc used by 2context.c.               *)
(***************************************************************************)
vb2_aligned(ptr, align) == ptr % align = 0

vb2_wb_round_up(v) ==
    (((v + (VB2_WORKBUF_ALIGN - 1)) \div VB2_WORKBUF_ALIGN) * VB2_WORKBUF_ALIGN)
        % UINT32_MOD

\* container_of(ctx, struct vb2_shared_data, ctx)
vb2_get_sd(c) == c - OFF_CTX

Field(m, sd, off) == m[sd + off]

SetField(m, sd, off, v) == [m EXCEPT ![sd + off] = v]

memset(m, dst, c, n) ==
    [i \in DOMAIN m |-> IF dst <= i /\ i < dst + n THEN c ELSE m[i]]

\* A forward cell-by-cell copy: what memcpy does, and what memmove must not
\* do when the destination lies above an overlapping source.
RECURSIVE memcpy_forward(_, _, _, _)
memcpy_forward(m, dst, src, n) ==
    IF n = 0 THEN m
    ELSE memcpy_forward([m EXCEPT ![dst] = m[src]], dst + 1, src + 1, n - 1)

memmove(m, dst, src, n) ==
    [i \in DOMAIN m |->
        IF dst <= i /\ i < dst + n THEN m[src + (i - dst)] ELSE m[i]]

HasFlag(flags, bit) == (flags \div bit) % 2 = 1

(***************************************************************************)
(* vb2_workbuf_from_ctx: the scratch view is what is left behind 'used'.   *)
(***************************************************************************)
vb2_workbuf_init(buf, size) == [buf |-> buf, size |-> size]

vb2_workbuf_from_ctx(m, c) ==
    LET sd == vb2_get_sd(c)
    IN  vb2_workbuf_init(sd + Field(m, sd, OFF_WORKBUF_USED),
                         (Field(m, sd, OFF_WORKBUF_SIZE)
                            - Field(m, sd, OFF_WORKBUF_USED)) % UINT32_MOD)

(***************************************************************************)
(* vb2_set_workbuf_used                                                    *)
(***************************************************************************)
\* Mutant: the value is stored as given, not rounded up.
vb2_set_workbuf_used_NotRounded(m, c, used) ==
    SetField(m, vb2_get_sd(c), OFF_WORKBUF_USED, used)

vb2_set_workbuf_used(m, c, used) ==
    SetField(m, vb2_get_sd(c), OFF_WORKBUF_USED, vb2_wb_round_up(used))

(***************************************************************************)
(* vb2api_init.  The result is the return value, the memory after the call *)
(* and the value left in *ctxptr.                                          *)
(***************************************************************************)
\* Mutant: the memset is forgotten.
InitZeroed_Forgotten(m, sd) == m

InitZeroed(m, sd) == memset(m, sd, 0, SIZEOF_SD)

\* Mutant: used is set to sizeof(*sd), not rounded up.
InitStamped_NotRounded(m, sd, size) ==
    LET m1 == SetField(m, sd, OFF_MAGIC, VB2_SHARED_DATA_MAGIC)
        m2 == SetField(m1, sd, OFF_VERSION_MAJOR, VB2_SHARED_DATA_VERSION_MAJOR)
        m3 == SetField(m2, sd, OFF_VERSION_MINOR, VB2_SHARED_DATA_VERSION_MINOR)
        m4 == SetField(m3, sd, OFF_WORKBUF_SIZE, size)
    IN  SetField(m4, sd, OFF_WORKBUF_USED, SIZEOF_SD)

InitStamped(m, sd, size) ==
    LET m1 == SetField(m, sd, OFF_MAGIC, VB2_SHARED_DATA_MAGIC)
        m2 == SetField(m1, sd, OFF_VERSION_MAJOR, VB2_SHARED_DATA_VERSION_MAJOR)
        m3 == SetField(m2, sd, OFF_VERSION_MINOR, VB2_SHARED_DATA_VERSION_MINOR)
        m4 == SetField(m3, sd, OFF_WORKBUF_SIZE, size)
    IN  SetField(m4, sd, OFF_WORKBUF_USED, vb2_wb_round_up(SIZEOF_SD))

\* Mutant: the structure is cleared before the size is checked.
vb2api_init_ClearFirst(m, workbuf, size) ==
    IF ~vb2_aligned(workbuf, VB2_WORKBUF_ALIGN)
    THEN [rv |-> VB2_ERROR_WORKBUF_ALIGN, mem |-> m, ctx |-> NULL]
    ELSE IF size < vb2_wb_round_up(SIZEOF_SD)
    THEN [rv |-> VB2_ERROR_WORKBUF_SMALL,
          mem |-> memset(m, workbuf, 0, SIZEOF_SD), ctx |-> NULL]
    ELSE [rv |-> VB2_SUCCESS,
          mem |-> InitStamped(memset(m, workbuf, 0, SIZEOF_SD), workbuf, size),
          ctx |-> workbuf + OFF_CTX]

vb2api_init(m, workbuf, size) ==
    IF ~vb2_aligned(workbuf, VB2_WORKBUF_ALIGN)
    THEN [rv |-> VB2_ERROR_WORKBUF_ALIGN, mem |-> m, ctx |-> NULL]
    ELSE IF size < vb2_wb_round_up(SIZEOF_SD)
    THEN [rv |-> VB2_ERROR_WORKBUF_SMALL, mem |-> m, ctx |-> NULL]
    ELSE [rv |-> VB2_SUCCESS,
          mem |-> InitStamped(InitZeroed(m, workbuf), workbuf, size),
          ctx |-> workbuf + OFF_CTX]

(***************************************************************************)
(* get_boot_mode                                                           *)
(***************************************************************************)
\* Mutant: the developer flag is looked at before the recovery flag.
get_boot_mode_DevFirst(m, c) ==
    LET flags == m[c + (OFF_CTX_FLAGS - OFF_CTX)]
    IN  IF HasFlag(flags, VB2_CONTEXT_DEVELOPER_MODE)
        THEN VB2_BOOT_MODE_DEVELOPER
        ELSE IF HasFlag(flags, VB2_CONTEXT_RECOVERY_MODE)
        THEN VB2_BOOT_MODE_MANUAL_RECOVERY
        ELSE VB2_BOOT_MODE_NORMAL

get_boot_mode(m, c) ==
    LET flags == m[c + (OFF_CTX_FLAGS - OFF_CTX)]
    IN  IF HasFlag(flags, VB2_CONTEXT_RECOVERY_MODE)
        THEN VB2_BOOT_MODE_MANUAL_RECOVERY
        ELSE IF HasFlag(flags, VB2_CONTEXT_DEVELOPER_MODE)
        THEN VB2_BOOT_MODE_DEVELOPER
        ELSE VB2_BOOT_MODE_NORMAL

(***************************************************************************)
(* vb2api_relocate.  c is the value *ctxptr holds when the call is made:   *)
(* the code stores to *ctxptr only on the success path.                    *)
(***************************************************************************)
\* Mutant: the minor version must equal the expected one.
VersionMismatch_ExactMinor(major, minor) ==
    \/ major # VB2_SHARED_DATA_VERSION_MAJOR
    \/ minor # VB2_SHARED_DATA_VERSION_MINOR

\* The condition of the outer 'if' of the version check.
VersionMismatch(major, minor) ==
    \/ major # VB2_SHARED_DATA_VERSION_MAJOR
    \/ minor < VB2_SHARED_DATA_VERSION_MINOR

\* Mutant: the migration is taken without looking at the major version.
VersionMigrates_AnyMajor(major, minor) ==
    /\ minor = 0
    /\ VB2_SHARED_DATA_VERSION_MINOR = 1

\* The condition of the inner 'if': the one migration the code knows.
VersionMigrates(major, minor) ==
    /\ major = VB2_SHARED_DATA_VERSION_MAJOR
    /\ minor = 0
    /\ VB2_SHARED_DATA_VERSION_MINOR = 1

\* update_bootmode as the code leaves it after the version check.
UpdateBootmode(m, cur) ==
    /\ VersionMismatch(Field(m, cur, OFF_VERSION_MAJOR),
                       Field(m, cur, OFF_VERSION_MINOR))
    /\ VersionMigrates(Field(m, cur, OFF_VERSION_MAJOR),
                       Field(m, cur, OFF_VERSION_MINOR))

\* Mutant: used is compared with the new size before it is compared with the
\* recorded size.
RelocateStatus_SmallBeforeInvalid(m, new_workbuf, cur_workbuf, size) ==
    LET major == Field(m, cur_workbuf, OFF_VERSION_MAJOR)
        minor == Field(m, cur_workbuf, OFF_VERSION_MINOR)
        used  == Field(m, cur_workbuf, OFF_WORKBUF_USED)
    IN  IF ~vb2_aligned(new_workbuf, VB2_WORKBUF_ALIGN)
        THEN VB2_ERROR_WORKBUF_ALIGN
        ELSE IF Field(m, cur_workbuf, OFF_MAGIC) # VB2_SHARED_DATA_MAGIC
        THEN VB2_ERROR_SHARED_DATA_MAGIC
        ELSE IF VersionMismatch(major, minor) /\ ~VersionMigrates(major, minor)
        THEN VB2_ERROR_SHARED_DATA_VERSION
        ELSE IF used < vb2_wb_round_up(SIZEOF_SD)
        THEN VB2_ERROR_WORKBUF_INVALID
        ELSE IF used > size
        THEN VB2_ERROR_WORKBUF_SMALL
        ELSE IF Field(m, cur_workbuf, OFF_WORKBUF_SIZE) < used
        THEN VB2_ERROR_WORKBUF_INVALID
        ELSE VB2_SUCCESS

\* Mutant: the new size is checked before the header is validated.
RelocateStatus_SizeFirst(m, new_workbuf, cur_workbuf, size) ==
    LET major == Field(m, cur_workbuf, OFF_VERSION_MAJOR)
        minor == Field(m, cur_workbuf, OFF_VERSION_MINOR)
        used  == Field(m, cur_workbuf, OFF_WORKBUF_USED)
    IN  IF ~vb2_aligned(new_workbuf, VB2_WORKBUF_ALIGN)
        THEN VB2_ERROR_WORKBUF_ALIGN
        ELSE IF used > size
        THEN VB2_ERROR_WORKBUF_SMALL
        ELSE IF Field(m, cur_workbuf, OFF_MAGIC) # VB2_SHARED_DATA_MAGIC
        THEN VB2_ERROR_SHARED_DATA_MAGIC
        ELSE IF VersionMismatch(major, minor) /\ ~VersionMigrates(major, minor)
        THEN VB2_ERROR_SHARED_DATA_VERSION
        ELSE IF used < vb2_wb_round_up(SIZEOF_SD)
        THEN VB2_ERROR_WORKBUF_INVALID
        ELSE IF Field(m, cur_workbuf, OFF_WORKBUF_SIZE) < used
        THEN VB2_ERROR_WORKBUF_INVALID
        ELSE VB2_SUCCESS

\* The validation part: the error of the first failing check, or success.
RelocateStatus(m, new_workbuf, cur_workbuf, size) ==
    LET major == Field(m, cur_workbuf, OFF_VERSION_MAJOR)
        minor == Field(m, cur_workbuf, OFF_VERSION_MINOR)
        used  == Field(m, cur_workbuf, OFF_WORKBUF_USED)
    IN  IF ~vb2_aligned(new_workbuf, VB2_WORKBUF_ALIGN)
        THEN VB2_ERROR_WORKBUF_ALIGN
        ELSE IF Field(m, cur_workbuf, OFF_MAGIC) # VB2_SHARED_DATA_MAGIC
        THEN VB2_ERROR_SHARED_DATA_MAGIC
        ELSE IF VersionMismatch(major, minor) /\ ~VersionMigrates(major, minor)
        THEN VB2_ERROR_SHARED_DATA_VERSION
        ELSE IF used < vb2_wb_round_up(SIZEOF_SD)
        THEN VB2_ERROR_WORKBUF_INVALID
        ELSE IF Field(m, cur_workbuf, OFF_WORKBUF_SIZE) < used
        THEN VB2_ERROR_WORKBUF_INVALID
        ELSE IF used > size
        THEN VB2_ERROR_WORKBUF_SMALL
        ELSE VB2_SUCCESS

\* "Relocate if necessary."
RelocateMoved(m, new_workbuf, cur_workbuf) ==
    IF cur_workbuf # new_workbuf
    THEN memmove(m, new_workbuf, cur_workbuf,
                 Field(m, cur_workbuf, OFF_WORKBUF_USED))
    ELSE m

\* Mutant: boot_mode is written, the minor version is not stamped.
RelocateMigrated_NoStamp(m, new_workbuf) ==
    SetField(m, new_workbuf, OFF_CTX_BOOT_MODE,
             get_boot_mode(m, new_workbuf + OFF_CTX))

\* Mutant: the minor version is stamped, boot_mode is not written.
RelocateMigrated_NoBootMode(m, new_workbuf) ==
    SetField(m, new_workbuf, OFF_VERSION_MINOR, 1)

\* The 0 -> 1 migration of the relocated header.
RelocateMigrated(m, new_workbuf) ==
    LET m1 == SetField(m, new_workbuf, OFF_VERSION_MINOR, 1)
    IN  SetField(m1, new_workbuf, OFF_CTX_BOOT_MODE,
                 get_boot_mode(m1, new_workbuf + OFF_CTX))

\* Mutant: the minor version is stamped where the migration is recognised,
\* before the bookkeeping checks.
vb2api_relocate_EarlyStamp(m, new_workbuf, cur_workbuf, size, c) ==
    LET status == RelocateStatus(m, new_workbuf, cur_workbuf, size)
        update_bootmode == UpdateBootmode(m, cur_workbuf)
        m1 == RelocateMoved(m, new_workbuf, cur_workbuf)
        m2 == SetField(m1, new_workbuf, OFF_WORKBUF_SIZE, size)
        m3 == IF update_bootmode THEN RelocateMigrated(m2, new_workbuf) ELSE m2
    IN  IF status \in {VB2_ERROR_WORKBUF_INVALID, VB2_ERROR_WORKBUF_SMALL}
        THEN [rv |-> status,
              mem |-> IF update_bootmode
                      THEN SetField(m, cur_workbuf, OFF_VERSION_MINOR, 1)
                      ELSE m,
              ctx |-> c]
        ELSE IF status # VB2_SUCCESS
        THEN [rv |-> status, mem |-> m, ctx |-> c]
        ELSE [rv |-> VB2_SUCCESS, mem |-> m3, ctx |-> new_workbuf + OFF_CTX]

vb2api_relocate(m, new_workbuf, cur_workbuf, size, c) ==
    LET status == RelocateStatus(m, new_workbuf, cur_workbuf, size)
        update_bootmode == UpdateBootmode(m, cur_workbuf)
        m1 == RelocateMoved(m, new_workbuf, cur_workbuf)
        m2 == SetField(m1, new_workbuf, OFF_WORKBUF_SIZE, size)
        m3 == IF update_bootmode THEN RelocateMigrated(m2, new_workbuf) ELSE m2
    IN  IF status # VB2_SUCCESS
        THEN [rv |-> status, mem |-> m, ctx |-> c]
        ELSE [rv |-> VB2_SUCCESS, mem |-> m3, ctx |-> new_workbuf + OFF_CTX]

(***************************************************************************)
(* vb2api_reinit                                                           *)
(***************************************************************************)
\* Mutant: workbuf_used is passed as the size.
vb2api_reinit_UsedAsSize(m, workbuf, c) ==
    vb2api_relocate(m, workbuf, workbuf,
                    Field(m, workbuf, OFF_WORKBUF_USED), c)

vb2api_reinit(m, workbuf, c) ==
    vb2api_relocate(m, workbuf, workbuf,
                    Field(m, workbuf, OFF_WORKBUF_SIZE), c)

(***************************************************************************)
(* The hardware-crypto hooks: the weak default implementations, which are  *)
(* what is linked when the platform supplies none of its own.              *)
(***************************************************************************)
\* Mutant: extending a digest that was never started is a silent no-op.
vb2ex_hwcrypto_digest_extend_Silent(buf, size) == VB2_SUCCESS

\* Mutant: the default full-verify hook claims to have verified.
vb2ex_hwcrypto_rsa_verify_digest_Succeeds(key, sig, digest) == VB2_SUCCESS

vb2ex_hwcrypto_digest_init(hash_alg, data_size) ==
    VB2_ERROR_EX_HWCRYPTO_UNSUPPORTED

vb2ex_hwcrypto_digest_extend(buf, size) == VB2_ERROR_SHA_EXTEND_ALGORITHM

vb2ex_hwcrypto_digest_finalize(digest, digest_size) ==
    VB2_ERROR_SHA_FINALIZE_ALGORITHM

vb2ex_hwcrypto_rsa_verify_digest(key, sig, digest) ==
    VB2_ERROR_EX_HWCRYPTO_UNSUPPORTED

vb2ex_hwcrypto_modexp(key, inout, workbuf, workbuf_size, exp) ==
    VB2_ERROR_EX_HWCRYPTO_UNSUPPORTED

(***************************************************************************)
(* vb2_rsa_verify_digest.  The signature is represented by what its        *)
(* modular exponentiation under the key recovers: the digest it was made   *)
(* over, or "malformed" when the padding is not the expected one.          *)
(* hw_verify and hw_modexp are what the linked hooks return when called.   *)
(* The result carries the status and the trace of what was run.            *)
(***************************************************************************)
vb2_rsa_sig_size(sig_alg) ==
    IF sig_alg = "RSA1024" THEN 1024 \div 8
    ELSE IF sig_alg = "RSA2048" THEN 2048 \div 8
    ELSE 0

vb2_rsa_verify_digest(key, sig, digest, wb_size, hw_verify, hw_modexp) ==
    LET key_bytes == key.arrsize * 4
    IN  IF key_bytes # vb2_rsa_sig_size(key.sig_alg)
        THEN [rv |-> VB2_ERROR_RSA_VERIFY_SIG_LEN, hookrv |-> "none",
              trace |-> << >>]
        ELSE IF key.allow_hwcrypto
                /\ hw_verify # VB2_ERROR_EX_HWCRYPTO_UNSUPPORTED
        THEN [rv |-> hw_verify, hookrv |-> hw_verify,
              trace |-> <<"hw_rsa_verify_digest">>]
        ELSE
        LET hookrv == IF key.allow_hwcrypto THEN hw_verify ELSE "none"
            t1 == IF key.allow_hwcrypto
                  THEN <<"hw_rsa_verify_digest", "software">>
                  ELSE <<"software">>
        IN  IF wb_size < 3 * key_bytes
            THEN [rv |-> VB2_ERROR_RSA_VERIFY_WORKBUF, hookrv |-> hookrv,
                  trace |-> t1]
            ELSE
            LET t2 == IF key.allow_hwcrypto
                      THEN Append(t1, "hw_modexp") ELSE t1
                t3 == IF key.allow_hwcrypto /\ hw_modexp = VB2_SUCCESS
                      THEN t2 ELSE Append(t2, "modpow")
            IN  [rv |-> IF sig = digest THEN VB2_SUCCESS
                        ELSE VB2_ERROR_RSA_VERIFY_DIGEST,
                 hookrv |-> hookrv,
                 trace |-> t3]

(***************************************************************************)
(* The callers.  A call is made on memory the caller owns: the buffer      *)
(* [workbuf, workbuf + size) handed to vb2api_init or vb2api_relocate lies *)
(* inside the region, and so does everything a call reads.                 *)
(***************************************************************************)
\* Small values, and the values within VB2_WORKBUF_ALIGN of the top of the
\* uint32_t range.
UsedArgs ==
    (0 .. (MemSize + 1)) \cup ((UINT32_MOD - VB2_WORKBUF_ALIGN) .. (UINT32_MOD - 1))

\* What raw memory holds before anything was written to it: no cell is 0 and
\* no two cells are equal, so a cleared or a moved cell is told apart.
Junk == [i \in Addrs |-> 100 + i]

NoCall == [op |-> "none", new |-> NULL, cur |-> NULL, size |-> 0]
NoView == [buf |-> NULL, size |-> 0]
NoKey == [arrsize |-> 0, sig_alg |-> "none", allow_hwcrypto |-> FALSE]

\* No digest session, no verify call made; platform tells whether the weak
\* default hooks or the platform's own are linked.
NoHw(platform) ==
    [platform |-> platform, session |-> FALSE, inits |-> 0,
     key |-> NoKey, sig |-> "none", digest |-> "none", wb_size |-> 0,
     hookrv |-> "none", trace |-> << >>]

\* What the caller of a hook gets: the weak default's result unless the
\* platform links its own implementation, which may return anything.
LinkedHook(default_rv, platform_rv) ==
    IF hw.platform = "default" THEN default_rv ELSE platform_rv

HashAlgs == {"SHA256", "SHA512"}
SigAlgs == {"RSA1024", "RSA2048"}
Keys ==
    [arrsize : {vb2_rsa_sig_size(a) \div 4 : a \in SigAlgs},
     sig_alg : SigAlgs,
     allow_hwcrypto : BOOLEAN]
Digests == {"d1", "d2"}
Signatures == {"d1", "malformed"}
ScratchSizes == {0, 3 * vb2_rsa_sig_size("RSA1024"),
                 VB2_VERIFY_RSA_DIGEST_WORKBUF_BYTES}
PlatformDigestInitResults == {VB2_SUCCESS, VB2_ERROR_EX_HWCRYPTO_UNSUPPORTED}
PlatformDigestExtendResults == {VB2_SUCCESS, VB2_ERROR_SHA_EXTEND_ALGORITHM}
PlatformDigestFinalizeResults == {VB2_SUCCESS, VB2_ERROR_SHA_FINALIZE_ALGORITHM}
PlatformRsaResults ==
    {VB2_SUCCESS, VB2_ERROR_EX_HWCRYPTO_UNSUPPORTED, VB2_ERROR_RSA_VERIFY_DIGEST}
PlatformModexpResults == {VB2_SUCCESS, VB2_ERROR_EX_HWCRYPTO_UNSUPPORTED}

\* A header as an earlier boot stage (possibly an older or a newer build, or
\* a corrupted one) may have left it at address sd.
InheritedAddrs == {0, 4, 8}
InheritedMagic == {VB2_SHARED_DATA_MAGIC, VB2_SHARED_DATA_MAGIC + 1}
InheritedMajor == {VB2_SHARED_DATA_VERSION_MAJOR,
                   VB2_SHARED_DATA_VERSION_MAJOR + 1}
InheritedMinor == {0, VB2_SHARED_DATA_VERSION_MINOR,
                   VB2_SHARED_DATA_VERSION_MINOR + 1}
InheritedFlags == {0, VB2_CONTEXT_RECOVERY_MODE, VB2_CONTEXT_DEVELOPER_MODE,
                   VB2_CONTEXT_RECOVERY_MODE + VB2_CONTEXT_DEVELOPER_MODE}
InheritedUsed == {SIZEOF_SD, vb2_wb_round_up(SIZEOF_SD),
                  vb2_wb_round_up(SIZEOF_SD) + 4}
InheritedSize == {vb2_wb_round_up(SIZEOF_SD) - 4, vb2_wb_round_up(SIZEOF_SD),
                  vb2_wb_round_up(SIZEOF_SD) + 4}

Header(sd, magic, major, minor, flags, size, used) ==
    [i \in Addrs |->
        IF i = sd + OFF_MAGIC THEN magic
        ELSE IF i = sd + OFF_VERSION_MAJOR THEN major
        ELSE IF i = sd + OFF_VERSION_MINOR THEN minor
        ELSE IF i = sd + OFF_CTX_FLAGS THEN flags
        ELSE IF i = sd + OFF_CTX_BOOT_MODE THEN VB2_BOOT_MODE_BROKEN_SCREEN
        ELSE IF i = sd + OFF_WORKBUF_SIZE THEN size
        ELSE IF i = sd + OFF_WORKBUF_USED THEN used
        ELSE Junk[i]]

InitCommon ==
    /\ ctx = NULL
    /\ rv = "none"
    /\ call = NoCall
    /\ pre = mem
    /\ prectx = NULL
    /\ view = NoView
    /\ pc = "idle"
    /\ steps = 0
    /\ hw = NoHw("default")

\* A fresh boot: raw memory, nothing initialised yet.
Init ==
    /\ mem = Junk
    /\ wb = 0
    /\ limit = MaxSteps
    /\ InitCommon

\* A handoff: the buffer at wb was left by an earlier stage.
InitHandoff ==
    /\ \E sd \in InheritedAddrs, magic \in InheritedMagic,
          major \in InheritedMajor, minor \in InheritedMinor,
          flags \in InheritedFlags, size \in InheritedSize,
          used \in InheritedUsed :
            /\ mem = Header(sd, magic, major, minor, flags, size, used)
            /\ wb = sd
    /\ limit = MaxHandoffSteps
    /\ InitCommon

Called(op, new, cur, size) ==
    /\ pc' = "returned"
    /\ call' = [op |-> op, new |-> new, cur |-> cur, size |-> size]
    /\ pre' = mem
    /\ prectx' = ctx
    /\ steps' = steps + 1
    /\ UNCHANGED limit

ApiInit ==
    \E workbuf \in Addrs, size \in SizeArgs :
        /\ pc = "idle"
        /\ steps < limit
        /\ workbuf + size <= MemSize
        /\ LET r == vb2api_init(mem, workbuf, size)
           IN  /\ mem' = r.mem
               /\ ctx' = r.ctx
               /\ rv' = r.rv
               /\ wb' = IF r.rv = VB2_SUCCESS THEN workbuf ELSE wb
        /\ Called("init", workbuf, workbuf, size)
        /\ UNCHANGED <<view, hw>>

ApiRelocate ==
    \E new_workbuf \in Addrs, size \in SizeArgs :
        /\ pc = "idle"
        /\ steps < limit
        /\ new_workbuf + size <= MemSize
        /\ wb + SIZEOF_SD <= MemSize
        /\ \/ RelocateStatus(mem, new_workbuf, wb, size) # VB2_SUCCESS
           \/ wb + Field(mem, wb, OFF_WORKBUF_USED) <= MemSize
        /\ LET r == vb2api_relocate(mem, new_workbuf, wb, size, ctx)
           IN  /\ mem' = r.mem
               /\ ctx' = r.ctx
               /\ rv' = r.rv
               /\ wb' = IF r.rv = VB2_SUCCESS THEN new_workbuf ELSE wb
        /\ Called("relocate", new_workbuf, wb, size)
        /\ UNCHANGED <<view, hw>>

ApiReinit ==
    /\ pc = "idle"
    /\ steps < limit
    /\ wb + SIZEOF_SD <= MemSize
    /\ LET r == vb2api_reinit(mem, wb, ctx)
       IN  /\ mem' = r.mem
           /\ ctx' = r.ctx
           /\ rv' = r.rv
    /\ Called("reinit", wb, wb, Field(mem, wb, OFF_WORKBUF_SIZE))
    /\ UNCHANGED <<wb, view, hw>>

SetWorkbufUsed ==
    \E used \in UsedArgs :
        /\ pc = "idle"
        /\ steps < limit
        /\ ctx # NULL
        /\ mem' = vb2_set_workbuf_used(mem, ctx, used)
        /\ rv' = "void"
        /\ Called("set_workbuf_used", wb, wb, used)
        /\ UNCHANGED <<wb, ctx, view, hw>>

WorkbufFromCtx ==
    /\ pc = "idle"
    /\ steps < limit
    /\ ctx # NULL
    /\ view' = vb2_workbuf_from_ctx(mem, ctx)
    /\ rv' = "void"
    /\ Called("workbuf_from_ctx", wb, wb, 0)
    /\ UNCHANGED <<mem, wb, ctx, hw>>

\* The caller has looked at the result and goes on to its next call; the
\* status, the arguments and the scratch view are not kept.
Resume ==
    /\ pc = "returned"
    /\ pc' = "idle"
    /\ rv' = "none"
    /\ call' = NoCall
    /\ pre' = mem
    /\ prectx' = NULL
    /\ view' = NoView
    /\ hw' = [hw EXCEPT !.key = NoKey, !.sig = "none", !.digest = "none",
                        !.wb_size = 0, !.hookrv = "none", !.trace = << >>]
    /\ UNCHANGED <<mem, wb, ctx, steps, limit>>

Next ==
    \/ Resume
    \/ ApiInit
    \/ ApiRelocate
    \/ ApiReinit
    \/ SetWorkbufUsed
    \/ WorkbufFromCtx

Spec == Init /\ [][Next]_vars

NextHandoff ==
    \/ Resume
    \/ ApiRelocate
    \/ ApiReinit
    \/ SetWorkbufUsed
    \/ WorkbufFromCtx

SpecHandoff == InitHandoff /\ [][NextHandoff]_vars

\* A context whose flags word the caller has set to any value before the
\* boot mode is derived from it.
InitBootMode ==
    /\ \E flags \in 0 .. MaxFlags :
          mem = Header(0, VB2_SHARED_DATA_MAGIC, VB2_SHARED_DATA_VERSION_MAJOR,
                       VB2_SHARED_DATA_VERSION_MINOR, flags,
                       vb2_wb_round_up(SIZEOF_SD), vb2_wb_round_up(SIZEOF_SD))
    /\ wb = 0
    /\ ctx = OFF_CTX
    /\ limit = MaxSteps
    /\ rv = "none"
    /\ call = NoCall
    /\ pre = mem
    /\ prectx = NULL
    /\ view = NoView
    /\ pc = "idle"
    /\ steps = 0
    /\ hw = NoHw("default")

GetBootMode ==
    /\ pc = "idle"
    /\ steps < limit
    /\ ctx # NULL
    /\ rv' = get_boot_mode(mem, ctx)
    /\ Called("get_boot_mode", wb, wb, 0)
    /\ UNCHANGED <<mem, wb, ctx, view, hw>>

NextBootMode ==
    \/ Resume
    \/ GetBootMode

SpecBootMode == InitBootMode /\ [][NextBootMode]_vars

\* The crypto side of a boot: either the weak default hooks are linked or
\* the platform's own.
InitCrypto ==
    /\ mem = Junk
    /\ wb = 0
    /\ limit = MaxSteps
    /\ ctx = NULL
    /\ rv = "none"
    /\ call = NoCall
    /\ pre = mem
    /\ prectx = NULL
    /\ view = NoView
    /\ pc = "idle"
    /\ steps = 0
    /\ \E platform \in {"default", "override"} : hw = NoHw(platform)

HwDigestInit ==
    \E hash_alg \in HashAlgs, data_size \in {0, 64},
       platform_rv \in PlatformDigestInitResults :
        /\ pc = "idle"
        /\ steps < limit
        /\ LET r == LinkedHook(vb2ex_hwcrypto_digest_init(hash_alg, data_size),
                               platform_rv)
           IN  /\ rv' = r
               /\ hw' = [hw EXCEPT !.session = (r = VB2_SUCCESS),
                                   !.inits = @ + 1]
        /\ Called("hwcrypto_digest_init", NULL, NULL, data_size)
        /\ UNCHANGED <<mem, wb, ctx, view>>

HwDigestExtend ==
    \E size \in {0, 64}, platform_rv \in PlatformDigestExtendResults :
        /\ pc = "idle"
        /\ steps < limit
        /\ rv' = LinkedHook(vb2ex_hwcrypto_digest_extend(NULL, size),
                            platform_rv)
        /\ Called("hwcrypto_digest_extend", NULL, NULL, size)
        /\ UNCHANGED <<mem, wb, ctx, view, hw>>

HwDigestFinalize ==
    \E digest_size \in {32, 64},
       platform_rv \in PlatformDigestFinalizeResults :
        /\ pc = "idle"
        /\ steps < limit
        /\ LET r == LinkedHook(
                        vb2ex_hwcrypto_digest_finalize(NULL, digest_size),
                        platform_rv)
           IN  /\ rv' = r
               /\ hw' = [hw EXCEPT !.session = @ /\ r # VB2_SUCCESS]
        /\ Called("hwcrypto_digest_finalize", NULL, NULL, digest_size)
        /\ UNCHANGED <<mem, wb, ctx, view>>

HwRsaVerifyDigest ==
    \E key \in Keys, sig \in Signatures, digest \in Digests,
       platform_rv \in PlatformRsaResults :
        /\ pc = "idle"
        /\ steps < limit
        /\ rv' = LinkedHook(vb2ex_hwcrypto_rsa_verify_digest(key, sig, digest),
                            platform_rv)
        /\ Called("hwcrypto_rsa_verify_digest", NULL, NULL, 0)
        /\ UNCHANGED <<mem, wb, ctx, view, hw>>

HwModexp ==
    \E key \in Keys, sig \in Signatures, workbuf_size \in ScratchSizes,
       platform_rv \in PlatformModexpResults :
        /\ pc = "idle"
        /\ steps < limit
        /\ rv' = LinkedHook(
                    vb2ex_hwcrypto_modexp(key, sig, NULL, workbuf_size, 65537),
                    platform_rv)
        /\ Called("hwcrypto_modexp", NULL, NULL, workbuf_size)
        /\ UNCHANGED <<mem, wb, ctx, view, hw>>

RsaVerifyDigest ==
    \E key \in Keys, sig \in Signatures, digest \in Digests,
       wb_size \in ScratchSizes,
       platform_verify \in PlatformRsaResults,
       platform_modexp \in PlatformModexpResults :
        /\ pc = "idle"
        /\ steps < limit
        /\ LET r == vb2_rsa_verify_digest(
                        key, sig, digest, wb_size,
                        LinkedHook(
                            vb2ex_hwcrypto_rsa_verify_digest(key, sig, digest),
                            platform_verify),
                        LinkedHook(
                            vb2ex_hwcrypto_modexp(key, sig, NULL, wb_size,
                                                  65537),
                            platform_modexp))
           IN  /\ rv' = r.rv
               /\ hw' = [hw EXCEPT !.key = key, !.sig = sig,
                                   !.digest = digest, !.wb_size = wb_size,
                                   !.hookrv = r.hookrv, !.trace = r.trace]
        /\ Called("rsa_verify_digest", NULL, NULL, wb_size)
        /\ UNCHANGED <<mem, wb, ctx, view>>

NextCrypto ==
    \/ Resume
    \/ HwDigestInit
    \/ HwDigestExtend
    \/ HwDigestFinalize
    \/ HwRsaVerifyDigest
    \/ HwModexp
    \/ RsaVerifyDigest

SpecCrypto == InitCrypto /\ [][NextCrypto]_vars

(***************************************************************************)
(* Vocabulary of the properties.  They are stated on the state a call      *)
(* leaves when it returns: call holds the arguments, pre and prectx what   *)
(* memory and *ctxptr were when the call was made.                         *)
(***************************************************************************)
WB_HDR == vb2_wb_round_up(SIZEOF_SD)

Returned(op) == pc = "returned" /\ call.op = op

ReturnedRelocate == Returned("relocate") \/ Returned("reinit")

\* A field of the header the call was made on, before the call.
Old(off) == pre[call.cur + off]

\* A field of the header at the call's (destination) buffer, after the call.
New(off) == mem[call.new + off]

(***************************************************************************)
(* C1: for an aligned buffer and a size >= round_up(sizeof header),        *)
(* vb2api_init returns success, stamps magic and the current major/minor   *)
(* version, sets size to the given size and used to round_up(sizeof        *)
(* header), returns the embedded context, and the scratch view taken       *)
(* right after starts at offset used and has size - round_up(sizeof        *)
(* header) left.                                                           *)
(***************************************************************************)
C1_InitSucceeds ==
    (/\ Returned("init")
     /\ call.new % VB2_WORKBUF_ALIGN = 0
     /\ call.size >= WB_HDR)
    => /\ rv = VB2_SUCCESS
       /\ ctx = call.new + OFF_CTX
       /\ New(OFF_MAGIC) = VB2_SHARED_DATA_MAGIC
       /\ New(OFF_VERSION_MAJOR) = VB2_SHARED_DATA_VERSION_MAJOR
       /\ New(OFF_VERSION_MINOR) = VB2_SHARED_DATA_VERSION_MINOR
       /\ New(OFF_WORKBUF_SIZE) = call.size
       /\ New(OFF_WORKBUF_USED) = WB_HDR
       /\ vb2_workbuf_from_ctx(mem, ctx).buf = call.new + WB_HDR
       /\ vb2_workbuf_from_ctx(mem, ctx).size = call.size - WB_HDR

\* An init of a buffer with room behind the header has succeeded.
C1_Witness ==
    /\ Returned("init")
    /\ rv = VB2_SUCCESS
    /\ call.size = WB_HDR + 4
    /\ vb2_workbuf_from_ctx(mem, ctx).size = 4

(***************************************************************************)
(* C2: a failing vb2api_init writes nothing and returns a null context: a  *)
(* misaligned buffer gives the alignment error whatever the size, an       *)
(* aligned buffer with size < round_up(sizeof header) gives the            *)
(* buffer-too-small error, and in both cases memory is as before the call. *)
(***************************************************************************)
C2_InitFailureClean ==
    Returned("init") =>
       /\ (call.new % VB2_WORKBUF_ALIGN # 0
             => rv = VB2_ERROR_WORKBUF_ALIGN)
       /\ (call.new % VB2_WORKBUF_ALIGN = 0 /\ call.size < WB_HDR
             => rv = VB2_ERROR_WORKBUF_SMALL)
       /\ (rv # VB2_SUCCESS => mem = pre /\ ctx = NULL)

\* A misaligned and too small buffer was refused while the caller still held
\* a context from an earlier success.
C2_Witness ==
    /\ Returned("init")
    /\ call.new % VB2_WORKBUF_ALIGN # 0
    /\ call.size < WB_HDR
    /\ rv = VB2_ERROR_WORKBUF_ALIGN
    /\ prectx # NULL
    /\ ctx = NULL

\* An aligned buffer that is too small was refused.
C2_WitnessSmall ==
    /\ Returned("init")
    /\ call.new % VB2_WORKBUF_ALIGN = 0
    /\ call.size = SIZEOF_SD
    /\ rv = VB2_ERROR_WORKBUF_SMALL

(***************************************************************************)
(* C3 as claimed: after a successful vb2api_init every cell of             *)
(* [buf, buf + size) that is not a stamped header field is zero.           *)
(***************************************************************************)
C3_WholeBufferZeroed ==
    (Returned("init") /\ rv = VB2_SUCCESS) =>
        \A i \in 0 .. (call.size - 1) :
            i \notin StampedOffsets => mem[call.new + i] = 0

(***************************************************************************)
(* C3 as the code has it: a successful vb2api_init zeroes the header       *)
(* structure only.  Every cell of [buf, buf + sizeof header) that is not a *)
(* stamped field is zero; every cell outside the header structure, the     *)
(* rest of the buffer up to size included, is as it was before the call.   *)
(***************************************************************************)
C3_HeaderZeroed ==
    (Returned("init") /\ rv = VB2_SUCCESS) =>
        \A a \in Addrs :
            IF call.new <= a /\ a < call.new + SIZEOF_SD
            THEN (a - call.new) \notin StampedOffsets => mem[a] = 0
            ELSE mem[a] = pre[a]

\* An init succeeded on a buffer whose header cells and scratch cells held
\* something else than zero.
C3_Witness ==
    /\ Returned("init")
    /\ rv = VB2_SUCCESS
    /\ call.size > WB_HDR
    /\ pre[call.new + OFF_CTX_FLAGS] # 0
    /\ mem[call.new + OFF_CTX_FLAGS] = 0
    /\ pre[call.new + WB_HDR] # 0

(***************************************************************************)
(* The six checks of vb2api_relocate, stated on the arguments of the call  *)
(* and on the header as it was when the call was made.                     *)
(***************************************************************************)
DestMisaligned == call.new % VB2_WORKBUF_ALIGN # 0

BadMagic == Old(OFF_MAGIC) # VB2_SHARED_DATA_MAGIC

IsMigrationPair ==
    Old(OFF_VERSION_MINOR) = 0 /\ VB2_SHARED_DATA_VERSION_MINOR = 1

\* Major must match exactly; minor must be >= expected, or be the pair
\* (current 0, expected 1).
VersionIncompatible ==
    ~ (/\ Old(OFF_VERSION_MAJOR) = VB2_SHARED_DATA_VERSION_MAJOR
       /\ \/ Old(OFF_VERSION_MINOR) >= VB2_SHARED_DATA_VERSION_MINOR
          \/ IsMigrationPair)

UsedBelowHeader == Old(OFF_WORKBUF_USED) < WB_HDR

SizeBelowUsed == Old(OFF_WORKBUF_SIZE) < Old(OFF_WORKBUF_USED)

UsedAboveNewSize == Old(OFF_WORKBUF_USED) > call.size

\* The call migrates: matching major, minor 0, expected minor 1.
Migrating ==
    /\ Old(OFF_VERSION_MAJOR) = VB2_SHARED_DATA_VERSION_MAJOR
    /\ IsMigrationPair

(***************************************************************************)
(* C4: vb2api_relocate (and vb2api_reinit through it) returns the error of *)
(* the first failing check, in the order: destination misaligned ->        *)
(* alignment error; magic differs -> magic error; version incompatible ->  *)
(* version error; used < round_up(sizeof header) -> invalid; recorded size *)
(* < used -> invalid; used > new size -> too small.  It returns success if *)
(* and only if all six checks pass.                                        *)
(***************************************************************************)
C4_RelocateOrder ==
    ReturnedRelocate =>
       /\ rv = IF DestMisaligned THEN VB2_ERROR_WORKBUF_ALIGN
               ELSE IF BadMagic THEN VB2_ERROR_SHARED_DATA_MAGIC
               ELSE IF VersionIncompatible THEN VB2_ERROR_SHARED_DATA_VERSION
               ELSE IF UsedBelowHeader THEN VB2_ERROR_WORKBUF_INVALID
               ELSE IF SizeBelowUsed THEN VB2_ERROR_WORKBUF_INVALID
               ELSE IF UsedAboveNewSize THEN VB2_ERROR_WORKBUF_SMALL
               ELSE VB2_SUCCESS
       /\ (rv = VB2_SUCCESS) <=>
             ~ (\/ DestMisaligned \/ BadMagic \/ VersionIncompatible
                \/ UsedBelowHeader \/ SizeBelowUsed \/ UsedAboveNewSize)

\* Several checks fail at once and the earliest of them decides.
C4_Witness ==
    /\ Returned("relocate")
    /\ ~DestMisaligned
    /\ BadMagic
    /\ VersionIncompatible
    /\ UsedBelowHeader
    /\ SizeBelowUsed
    /\ UsedAboveNewSize
    /\ rv = VB2_ERROR_SHARED_DATA_MAGIC

\* The last check alone fails.
C4_WitnessSmall ==
    /\ Returned("relocate")
    /\ ~DestMisaligned /\ ~BadMagic /\ ~VersionIncompatible
    /\ ~UsedBelowHeader /\ ~SizeBelowUsed
    /\ UsedAboveNewSize
    /\ rv = VB2_ERROR_WORKBUF_SMALL

(***************************************************************************)
(* C5: a vb2api_relocate or vb2api_reinit that returns an error has        *)
(* written nothing: every cell of memory, source and destination buffer    *)
(* included, is as it was before the call.                                 *)
(***************************************************************************)
C5_RelocateFailureClean ==
    (ReturnedRelocate /\ rv # VB2_SUCCESS) => mem = pre

\* The 0 -> 1 migration was recognised, a later bookkeeping check failed, and
\* the destination is another buffer.
C5_Witness ==
    /\ Returned("relocate")
    /\ call.new # call.cur
    /\ ~DestMisaligned /\ ~BadMagic
    /\ Migrating
    /\ UsedBelowHeader
    /\ rv = VB2_ERROR_WORKBUF_INVALID

(***************************************************************************)
(* C6 as claimed: with aligned destination, correct magic and matching     *)
(* major, every minor version that is neither the expected one nor the     *)
(* pair (0, expected 1) makes relocate fail with the version error.        *)
(***************************************************************************)
C6_OnlyMigrationTolerated ==
    (/\ ReturnedRelocate
     /\ ~DestMisaligned /\ ~BadMagic
     /\ Old(OFF_VERSION_MAJOR) = VB2_SHARED_DATA_VERSION_MAJOR
     /\ Old(OFF_VERSION_MINOR) # VB2_SHARED_DATA_VERSION_MINOR
     /\ ~IsMigrationPair)
    => rv = VB2_ERROR_SHARED_DATA_VERSION

(***************************************************************************)
(* C6 as the code has it: with aligned destination, correct magic and      *)
(* matching major, relocate fails with the version error exactly for the   *)
(* minor versions lower than the expected one that are not the pair        *)
(* (0, expected 1); a minor version greater than the expected one passes   *)
(* the version check.                                                      *)
(***************************************************************************)
C6_LowerMinorRejected ==
    (/\ ReturnedRelocate
     /\ ~DestMisaligned /\ ~BadMagic
     /\ Old(OFF_VERSION_MAJOR) = VB2_SHARED_DATA_VERSION_MAJOR)
    => ((rv = VB2_ERROR_SHARED_DATA_VERSION)
          <=> (/\ Old(OFF_VERSION_MINOR) < VB2_SHARED_DATA_VERSION_MINOR
               /\ ~IsMigrationPair))

\* A header with a minor version above the expected one was relocated.
C6_Witness ==
    /\ Returned("relocate")
    /\ Old(OFF_VERSION_MAJOR) = VB2_SHARED_DATA_VERSION_MAJOR
    /\ Old(OFF_VERSION_MINOR) = VB2_SHARED_DATA_VERSION_MINOR + 1
    /\ rv = VB2_SUCCESS

(***************************************************************************)
(* C7: with correct magic and aligned destination, a major version that    *)
(* differs from the expected one makes vb2api_relocate and vb2api_reinit   *)
(* return the version error, whatever the minor version, used, size and    *)
(* the new size are.                                                       *)
(***************************************************************************)
C7_MajorMismatchFatal ==
    (/\ ReturnedRelocate
     /\ ~DestMisaligned /\ ~BadMagic
     /\ Old(OFF_VERSION_MAJOR) # VB2_SHARED_DATA_VERSION_MAJOR)
    => rv = VB2_ERROR_SHARED_DATA_VERSION

\* Major one above the expected, minor 0 (the migration candidate), and the
\* bookkeeping broken as well.
C7_Witness ==
    /\ Returned("relocate")
    /\ ~DestMisaligned /\ ~BadMagic
    /\ Old(OFF_VERSION_MAJOR) = VB2_SHARED_DATA_VERSION_MAJOR + 1
    /\ Old(OFF_VERSION_MINOR) = 0
    /\ UsedBelowHeader
    /\ rv = VB2_ERROR_SHARED_DATA_VERSION

\* The same through vb2api_reinit.
C7_WitnessReinit ==
    /\ Returned("reinit")
    /\ ~DestMisaligned /\ ~BadMagic
    /\ Old(OFF_VERSION_MAJOR) = VB2_SHARED_DATA_VERSION_MAJOR + 1
    /\ Old(OFF_VERSION_MINOR) = 0
    /\ rv = VB2_ERROR_SHARED_DATA_VERSION

(***************************************************************************)
(* C8: a successful relocate of a header with matching major, minor 0 and  *)
(* expected minor 1 leaves minor 1 and boot_mode = the boot mode of the    *)
(* relocated context's flags at the destination; a successful relocate     *)
(* that needs no migration leaves the minor version and the boot_mode      *)
(* field of the source at the destination.                                 *)
(***************************************************************************)
ExpectedBootMode(flags) ==
    IF flags \in {VB2_CONTEXT_RECOVERY_MODE,
                  VB2_CONTEXT_RECOVERY_MODE + VB2_CONTEXT_DEVELOPER_MODE}
    THEN VB2_BOOT_MODE_MANUAL_RECOVERY
    ELSE IF flags = VB2_CONTEXT_DEVELOPER_MODE
    THEN VB2_BOOT_MODE_DEVELOPER
    ELSE VB2_BOOT_MODE_NORMAL

C8_Migration ==
    (ReturnedRelocate /\ rv = VB2_SUCCESS) =>
        IF Migrating
        THEN /\ New(OFF_VERSION_MINOR) = 1
             /\ New(OFF_CTX_FLAGS) = Old(OFF_CTX_FLAGS)
             /\ New(OFF_CTX_BOOT_MODE) = ExpectedBootMode(New(OFF_CTX_FLAGS))
        ELSE /\ New(OFF_VERSION_MINOR) = Old(OFF_VERSION_MINOR)
             /\ New(OFF_CTX_BOOT_MODE) = Old(OFF_CTX_BOOT_MODE)

\* A migrating move of a context with both flags set.
C8_Witness ==
    /\ Returned("relocate")
    /\ rv = VB2_SUCCESS
    /\ call.new # call.cur
    /\ Migrating
    /\ Old(OFF_CTX_FLAGS) =
          VB2_CONTEXT_RECOVERY_MODE + VB2_CONTEXT_DEVELOPER_MODE
    /\ New(OFF_CTX_BOOT_MODE) = VB2_BOOT_MODE_MANUAL_RECOVERY
    /\ Old(OFF_CTX_BOOT_MODE) # VB2_BOOT_MODE_MANUAL_RECOVERY

(***************************************************************************)
(* C9: after a successful relocate to another address, every cell of the   *)
(* used portion at the destination holds what the source held at the same  *)
(* offset before the call, except the size field (now the new size) and,   *)
(* on migration, the minor version and boot_mode fields; used is           *)
(* unchanged.  This holds wherever the destination lies: below or above    *)
(* the source, overlapping it or not.                                      *)
(***************************************************************************)
RewrittenOffsets ==
    {OFF_WORKBUF_SIZE} \cup
        (IF Migrating THEN {OFF_VERSION_MINOR, OFF_CTX_BOOT_MODE} ELSE {})

C9_MovePreservesUsed ==
    (Returned("relocate") /\ rv = VB2_SUCCESS /\ call.new # call.cur) =>
       /\ \A i \in 0 .. (Old(OFF_WORKBUF_USED) - 1) :
             i \notin RewrittenOffsets
                => mem[call.new + i] = pre[call.cur + i]
       /\ New(OFF_WORKBUF_USED) = Old(OFF_WORKBUF_USED)
       /\ New(OFF_WORKBUF_SIZE) = call.size

\* The destination lies above the source and overlaps it.
C9_Witness ==
    /\ Returned("relocate")
    /\ rv = VB2_SUCCESS
    /\ call.cur < call.new
    /\ call.new < call.cur + Old(OFF_WORKBUF_USED)

\* The destination lies below the source and overlaps it.
C9_WitnessBelow ==
    /\ Returned("relocate")
    /\ rv = VB2_SUCCESS
    /\ call.new < call.cur
    /\ call.cur < call.new + Old(OFF_WORKBUF_USED)
    /\ Old(OFF_WORKBUF_USED) > WB_HDR

\* The two ranges are disjoint.
C9_WitnessDisjoint ==
    /\ Returned("relocate")
    /\ rv = VB2_SUCCESS
    /\ \/ call.cur + Old(OFF_WORKBUF_USED) <= call.new
       \/ call.new + Old(OFF_WORKBUF_USED) <= call.cur

(***************************************************************************)
(* C10: on a valid header that needs no migration, relocate(buf, buf,      *)
(* recorded size) and reinit(buf) return success, leave every cell         *)
(* unchanged and return the context embedded at buf; applying either once  *)
(* more gives the same memory and the same result again.                   *)
(***************************************************************************)
ValidNoMigration ==
    /\ call.cur % VB2_WORKBUF_ALIGN = 0
    /\ Old(OFF_MAGIC) = VB2_SHARED_DATA_MAGIC
    /\ Old(OFF_VERSION_MAJOR) = VB2_SHARED_DATA_VERSION_MAJOR
    /\ Old(OFF_VERSION_MINOR) >= VB2_SHARED_DATA_VERSION_MINOR
    /\ WB_HDR <= Old(OFF_WORKBUF_USED)
    /\ Old(OFF_WORKBUF_USED) <= Old(OFF_WORKBUF_SIZE)

InPlaceRevalidation ==
    \/ Returned("reinit")
    \/ /\ Returned("relocate")
       /\ call.new = call.cur
       /\ call.size = Old(OFF_WORKBUF_SIZE)

C10_InPlaceIdempotent ==
    (InPlaceRevalidation /\ ValidNoMigration) =>
       /\ rv = VB2_SUCCESS
       /\ mem = pre
       /\ ctx = call.cur + OFF_CTX
       /\ vb2api_reinit(mem, call.cur, ctx)
            = [rv |-> VB2_SUCCESS, mem |-> pre, ctx |-> ctx]
       /\ vb2api_relocate(mem, call.cur, call.cur, Old(OFF_WORKBUF_SIZE), ctx)
            = [rv |-> VB2_SUCCESS, mem |-> pre, ctx |-> ctx]

\* reinit applied to a buffer whose context the caller already holds from an
\* earlier successful call, with scratch space left behind used.
C10_Witness ==
    /\ Returned("reinit")
    /\ ValidNoMigration
    /\ prectx = call.cur + OFF_CTX
    /\ Old(OFF_WORKBUF_USED) < Old(OFF_WORKBUF_SIZE)
    /\ rv = VB2_SUCCESS

(***************************************************************************)
(* Vocabulary for the buffer the caller holds a context of.                *)
(***************************************************************************)
HasContext == ctx # NULL

CurUsed == mem[wb + OFF_WORKBUF_USED]

CurSize == mem[wb + OFF_WORKBUF_SIZE]

(***************************************************************************)
(* C11: on a context obtained from vb2api_init, used never decreases: the  *)
(* value of used after a vb2_set_workbuf_used, vb2api_relocate,            *)
(* vb2api_reinit or vb2_workbuf_from_ctx is >= its value before the call;  *)
(* in particular a vb2_set_workbuf_used with a value below used does not   *)
(* lower it.                                                               *)
(***************************************************************************)
C11_UsedMonotonic ==
    (/\ pc = "returned"
     /\ call.op \in {"set_workbuf_used", "relocate", "reinit",
                     "workbuf_from_ctx"}
     /\ prectx # NULL)
    => CurUsed >= Old(OFF_WORKBUF_USED)

(***************************************************************************)
(* C12: whenever the caller holds a context, round_up(sizeof header) <=    *)
(* used <= size, so that the scratch view is offset = used, remaining =    *)
(* size - used with 0 <= remaining <= size and offset + remaining = size.  *)
(***************************************************************************)
C12_BookkeepingInvariant ==
    HasContext =>
       /\ WB_HDR <= CurUsed
       /\ CurUsed <= CurSize
       /\ vb2_workbuf_from_ctx(mem, ctx).buf = wb + CurUsed
       /\ vb2_workbuf_from_ctx(mem, ctx).size = CurSize - CurUsed
       /\ vb2_workbuf_from_ctx(mem, ctx).size <= CurSize

(***************************************************************************)
(* C18: whenever the caller holds a context (obtained from vb2api_init on  *)
(* an aligned buffer and kept through reserve, relocate and reinit), used  *)
(* is a multiple of VB2_WORKBUF_ALIGN and the scratch view starts on an    *)
(* aligned address; vb2api_relocate and vb2api_reinit leave used as it     *)
(* was.                                                                    *)
(***************************************************************************)
C18_ScratchAligned ==
    /\ HasContext =>
          /\ wb % VB2_WORKBUF_ALIGN = 0
          /\ CurUsed % VB2_WORKBUF_ALIGN = 0
          /\ vb2_workbuf_from_ctx(mem, ctx).buf % VB2_WORKBUF_ALIGN = 0
    /\ (ReturnedRelocate /\ prectx # NULL)
          => CurUsed = Old(OFF_WORKBUF_USED)

\* A buffer with scratch space reserved behind the header was relocated.
C18_Witness ==
    /\ Returned("relocate")
    /\ rv = VB2_SUCCESS
    /\ prectx # NULL
    /\ Old(OFF_WORKBUF_USED) = 2 * VB2_WORKBUF_ALIGN
    /\ CurUsed = 2 * VB2_WORKBUF_ALIGN

(***************************************************************************)
(* C19: after vb2_set_workbuf_used(ctx, newUsed) the stored used is the    *)
(* least multiple of VB2_WORKBUF_ALIGN that is >= newUsed, for every       *)
(* uint32_t newUsed, those within VB2_WORKBUF_ALIGN - 1 of the top of the  *)
(* range included.  (call.size holds newUsed.)                             *)
(***************************************************************************)
C19_RoundUpNoWrap ==
    Returned("set_workbuf_used") =>
       /\ CurUsed % VB2_WORKBUF_ALIGN = 0
       /\ CurUsed >= call.size
       /\ CurUsed < call.size + VB2_WORKBUF_ALIGN

(***************************************************************************)
(* C16: after a successful vb2api_relocate (or vb2api_reinit) the header   *)
(* at the destination is valid again: correct magic, expected major,       *)
(* minor >= expected, round_up(sizeof header) <= used <= size = new size;  *)
(* a vb2api_reinit of the destination made next returns success and        *)
(* changes no cell, also when the call performed the 0 -> 1 migration.     *)
(***************************************************************************)
C16_RelocatedHeaderValid ==
    (ReturnedRelocate /\ rv = VB2_SUCCESS) =>
       /\ New(OFF_MAGIC) = VB2_SHARED_DATA_MAGIC
       /\ New(OFF_VERSION_MAJOR) = VB2_SHARED_DATA_VERSION_MAJOR
       /\ New(OFF_VERSION_MINOR) >= VB2_SHARED_DATA_VERSION_MINOR
       /\ WB_HDR <= New(OFF_WORKBUF_USED)
       /\ New(OFF_WORKBUF_USED) <= New(OFF_WORKBUF_SIZE)
       /\ New(OFF_WORKBUF_SIZE) = call.size
       /\ vb2api_reinit(mem, call.new, ctx)
            = [rv |-> VB2_SUCCESS, mem |-> mem, ctx |-> ctx]

\* A move that migrated the header.
C16_Witness ==
    /\ Returned("relocate")
    /\ rv = VB2_SUCCESS
    /\ call.new # call.cur
    /\ Migrating
    /\ New(OFF_VERSION_MINOR) = 1
    /\ call.size > Old(OFF_WORKBUF_USED)

(***************************************************************************)
(* C17: vb2api_reinit never returns the buffer-too-small error: its only   *)
(* results are success and the alignment, magic, version and               *)
(* invalid-bookkeeping errors; when used exceeds the recorded size (and    *)
(* the earlier checks pass) the result is the invalid-bookkeeping error.   *)
(***************************************************************************)
C17_ReinitNeverSmall ==
    Returned("reinit") =>
       /\ rv \in {VB2_SUCCESS, VB2_ERROR_WORKBUF_ALIGN,
                  VB2_ERROR_SHARED_DATA_MAGIC, VB2_ERROR_SHARED_DATA_VERSION,
                  VB2_ERROR_WORKBUF_INVALID}
       /\ (/\ ~DestMisaligned /\ ~BadMagic /\ ~VersionIncompatible
           /\ ~UsedBelowHeader
           /\ SizeBelowUsed)
          => rv = VB2_ERROR_WORKBUF_INVALID

\* reinit of a header whose used exceeds its recorded size.
C17_Witness ==
    /\ Returned("reinit")
    /\ ~DestMisaligned /\ ~BadMagic /\ ~VersionIncompatible
    /\ ~UsedBelowHeader
    /\ Old(OFF_WORKBUF_USED) > Old(OFF_WORKBUF_SIZE)
    /\ call.size = Old(OFF_WORKBUF_SIZE)
    /\ rv = VB2_ERROR_WORKBUF_INVALID

(***************************************************************************)
(* C13: get_boot_mode is a pure function of the flags with a fixed         *)
(* precedence: manual recovery when the recovery flag is set (whatever the *)
(* developer flag), developer when only the developer flag is set, normal  *)
(* when neither is set; no other flag bit has an influence, and nothing is *)
(* written.                                                                *)
(***************************************************************************)
QueriedFlags == pre[prectx + (OFF_CTX_FLAGS - OFF_CTX)]

RecoverySet(flags) ==
    flags % (2 * VB2_CONTEXT_RECOVERY_MODE) >= VB2_CONTEXT_RECOVERY_MODE

DeveloperSet(flags) ==
    flags % (2 * VB2_CONTEXT_DEVELOPER_MODE) >= VB2_CONTEXT_DEVELOPER_MODE

C13_BootModePrecedence ==
    Returned("get_boot_mode") =>
       /\ mem = pre
       /\ ctx = prectx
       /\ RecoverySet(QueriedFlags) => rv = VB2_BOOT_MODE_MANUAL_RECOVERY
       /\ (~RecoverySet(QueriedFlags) /\ DeveloperSet(QueriedFlags))
             => rv = VB2_BOOT_MODE_DEVELOPER
       /\ (~RecoverySet(QueriedFlags) /\ ~DeveloperSet(QueriedFlags))
             => rv = VB2_BOOT_MODE_NORMAL

\* Both flags set, together with two unrelated bits.
C13_Witness ==
    /\ Returned("get_boot_mode")
    /\ QueriedFlags = VB2_CONTEXT_RECOVERY_MODE + VB2_CONTEXT_DEVELOPER_MODE + 1 + 16
    /\ rv = VB2_BOOT_MODE_MANUAL_RECOVERY

\* Only the developer flag, together with unrelated bits.
C13_WitnessDeveloper ==
    /\ Returned("get_boot_mode")
    /\ QueriedFlags = VB2_CONTEXT_DEVELOPER_MODE + 2 + 32
    /\ rv = VB2_BOOT_MODE_DEVELOPER

\* Neither flag, only unrelated bits.
C13_WitnessNormal ==
    /\ Returned("get_boot_mode")
    /\ QueriedFlags = 1 + 2 + 16 + 32
    /\ rv = VB2_BOOT_MODE_NORMAL

(***************************************************************************)
(* C14: with the default hooks linked, digest_init, rsa_verify_digest and  *)
(* modexp return the 'unsupported' sentinel for every argument, while      *)
(* digest_extend and digest_finalize return a hard error that is neither   *)
(* success nor 'unsupported'; so in no sequence of hook calls does a       *)
(* digest_init succeed (no session is ever established) and never does     *)
(* digest_extend or digest_finalize return success.                        *)
(***************************************************************************)
DefaultHooks == hw.platform = "default"

C14_DefaultHooks ==
    DefaultHooks =>
       /\ ~hw.session
       /\ Returned("hwcrypto_digest_init")
             => rv = VB2_ERROR_EX_HWCRYPTO_UNSUPPORTED
       /\ Returned("hwcrypto_rsa_verify_digest")
             => rv = VB2_ERROR_EX_HWCRYPTO_UNSUPPORTED
       /\ Returned("hwcrypto_modexp")
             => rv = VB2_ERROR_EX_HWCRYPTO_UNSUPPORTED
       /\ (Returned("hwcrypto_digest_extend")
           \/ Returned("hwcrypto_digest_finalize"))
             => /\ rv \notin {VB2_SUCCESS, VB2_ERROR_EX_HWCRYPTO_UNSUPPORTED}
                /\ rv \in {VB2_ERROR_SHA_EXTEND_ALGORITHM,
                           VB2_ERROR_SHA_FINALIZE_ALGORITHM}

\* digest_extend called after a digest_init was attempted.
C14_Witness ==
    /\ DefaultHooks
    /\ hw.inits >= 1
    /\ Returned("hwcrypto_digest_extend")
    /\ rv = VB2_ERROR_SHA_EXTEND_ALGORITHM

\* digest_finalize called after a digest_init was attempted.
C14_WitnessFinalize ==
    /\ DefaultHooks
    /\ hw.inits >= 1
    /\ Returned("hwcrypto_digest_finalize")
    /\ rv = VB2_ERROR_SHA_FINALIZE_ALGORITHM

(***************************************************************************)
(* C15 (as amended): once the signature-size check has passed, the         *)
(* hardware rsa_verify_digest hook is invoked only when key.allow_hwcrypto *)
(* is set and at most once per verify call; if it returns anything other   *)
(* than 'unsupported', verify returns exactly that and the software path   *)
(* is not run; if it returns 'unsupported' (as the default hook always     *)
(* does) or the key does not allow hardware crypto, the software path runs *)
(* exactly once; 'unsupported' is never what verify returns.  A verify     *)
(* call whose key fails the signature-size check runs neither the hook nor *)
(* the software path.                                                      *)
(***************************************************************************)
Occurrences(t, e) == Cardinality({i \in DOMAIN t : t[i] = e})

HookCalls == Occurrences(hw.trace, "hw_rsa_verify_digest")
SoftwareRuns == Occurrences(hw.trace, "software")
SigSizeConsistent == hw.key.arrsize * 4 = vb2_rsa_sig_size(hw.key.sig_alg)

\* The part of the statement that does not depend on the signature-size check.
FallbackCommon ==
    /\ HookCalls <= 1
    /\ SoftwareRuns <= 1
    /\ HookCalls = 1 => hw.key.allow_hwcrypto
    /\ (HookCalls = 1) = (hw.hookrv # "none")
    /\ (HookCalls = 1 /\ hw.hookrv # VB2_ERROR_EX_HWCRYPTO_UNSUPPORTED)
          => (rv = hw.hookrv /\ SoftwareRuns = 0)
    /\ (HookCalls = 1 /\ DefaultHooks)
          => hw.hookrv = VB2_ERROR_EX_HWCRYPTO_UNSUPPORTED
    /\ rv # VB2_ERROR_EX_HWCRYPTO_UNSUPPORTED

C15_WitnessDefinitive ==
    /\ Returned("rsa_verify_digest")
    /\ hw.hookrv = VB2_ERROR_RSA_VERIFY_DIGEST
    /\ hw.sig = hw.digest
    /\ hw.trace = <<"hw_rsa_verify_digest">>
    /\ rv = VB2_ERROR_RSA_VERIFY_DIGEST

====
